---- MODULE Spec2Model ----
(***************************************************************************)
(* Model of source/backend/plugin/CarlaPluginInternal.hpp: the report      *)
(* queue (PostRtEvents), the control injection queue (ExternalNotes), the  *)
(* resource tables and the teardown of CarlaPluginProtectedData.           *)
(*                                                                         *)
(* RtLinkedList and CarlaMutex are included by the header but defined      *)
(* elsewhere; their operations are modelled from the design document.      *)
(***************************************************************************)
EXTENDS Integers, Sequences, FiniteSets

VARIABLES
    \* ---- PostRtEvents (report queue) ----
    postMutex,       \* PostRtEvents::mutex, TRUE when locked
    data,            \* PostRtEvents::data, consumer-visible list
    dataPendingRT,   \* PostRtEvents::dataPendingRT, real-time side list
    generated,       \* number of events the real-time producer has passed to appendRT
    droppedRT,       \* events whose appendRT found the pool exhausted
    delivered,       \* events the consumer has taken out of `data`, in order
    consumerPc,      \* position of the report consumer: "idle" or "locked"
    lastPostOp,      \* the PostRtEvents operation that ran last and its outcome
    discarded,       \* events that clear() has removed from a list undelivered
    clearPc,         \* position of the thread calling clear()
    clears,          \* number of clear() calls begun, the destructor's included
    postDtorPc,      \* position of ~PostRtEvents: "alive" before, "destroyed" after
    \* ---- ExternalNotes (control injection queue) ----
    extMutex,        \* ExternalNotes::mutex, TRUE when locked
    extData,         \* ExternalNotes::data
    extPc,           \* position of each control thread inside ExternalNotes::append
    extSent,         \* number of notes passed to append_sleepy so far
    extCallers,      \* control threads that have called append so far
    extDropped,      \* notes whose append_sleepy returned without appending
    extDelivered,    \* notes the real-time consumer has taken, in order
    rtPc,            \* position of the real-time consumer within its block
    rtTaken,         \* notes taken in the current block
    extDtorPc,       \* position of ~ExternalNotes
    \* ---- resource tables ----
    audioIn,         \* audioIn, a PluginAudioData
    audioOut,        \* audioOut, a PluginAudioData
    cv,              \* a PluginCVData
    event,           \* a PluginEventData
    param,           \* a PluginParameterData
    prog,            \* a PluginProgramData
    midiprog,        \* a PluginMidiProgramData
    tableUnderTest,  \* the table the control thread is working on
    lastTableOp,     \* the table operation that ran last and its outcome
    tableTrail,      \* the last createNew and clear calls, oldest first
    lastRead,        \* what the last getCurrent() read
    \* ---- CarlaPluginProtectedData and its destructor ----
    masterMutex,     \* masterMutex: the thread holding it, or "nobody"
    singleMutex,     \* singleMutex: the thread holding it, or "nobody"
    needsReset,      \* needsReset
    strings,         \* which of name, filename, iconName, identifier are not nullptr
    client,          \* client: "nullptr", or the state of the engine client
    custom,          \* custom: the list of CustomData
    lib,             \* lib: "nullptr" or "open"
    uiLib,           \* uiLib: "nullptr" or "open"
    dtorPc,          \* position of ~CarlaPluginProtectedData
    lockMaster,      \* the destructor's local lockMaster
    lockSingle,      \* the destructor's local lockSingle
    seenMaster,      \* holder of masterMutex when the destructor tried it
    seenSingle,      \* holder of singleMutex when the destructor tried it
    atUnlock,        \* holders of the two mutexes when the destructor called unlock()
    asserts,         \* assertions that have failed
    atEntry          \* client, lib, uiLib and audioIn.count as the destructor found them

postVars == <<postMutex, data, dataPendingRT, generated, droppedRT, delivered,
              consumerPc, lastPostOp, discarded, clearPc, clears, postDtorPc>>

extVars == <<extMutex, extData, extPc, extSent, extCallers, extDropped, extDelivered,
             rtPc, rtTaken, extDtorPc>>

tableVars == <<audioIn, audioOut, cv, event, param, prog, midiprog, tableUnderTest,
               lastTableOp, tableTrail, lastRead>>

dtorVars == <<masterMutex, singleMutex, needsReset, strings, client, custom, lib, uiLib,
              dtorPc, lockMaster, lockSingle, seenMaster, seenSingle, atUnlock, asserts, atEntry>>

vars == <<postVars, extVars, tableVars, dtorVars>>

\* the variables outside each component
notPostVars == <<extVars, tableVars, dtorVars>>
notExtVars == <<postVars, tableVars, dtorVars>>
notTableVars == <<postVars, extVars, dtorVars>>
notDtorVars == <<postVars, extVars, tableUnderTest, lastTableOp, tableTrail, lastRead,
                 atEntry>>

(***************************************************************************)
(* Bounds of the model and constants of the program.                       *)
(***************************************************************************)
\* events the real-time producer generates in one run
MaxEvents == 130

\* PostRtEvents(): dataPool(128, 128)
kPostRtPoolSize == 128

\* notes the control threads append in one run
MaxNotes == 34

\* control threads calling ExternalNotes::append
NumControlThreads == 2

\* notes the real-time consumer takes per block
DrainPerBlock == 10

\* ExternalNotes(): dataPool(32, 152).  The pool is created with 32 nodes;
\* whether it ever gives out more is decided by RtLinkedList::Pool
kExtPoolNodes == 32

ControlThreads == 1..NumControlThreads

\* largest newCount passed to createNew
MaxCount == 3
TrailLen == 3

\* calls of PostRtEvents::clear() in one run, the destructor's not counted
MaxClears == 2

\* events the real-time producer generates in a run in which clear() is called
MaxClearEvents == 10

(***************************************************************************)
(* CarlaMutex: an exclusive, non-recursive lock.                           *)
(***************************************************************************)
\* CarlaMutex::tryLock(): succeeds exactly when nobody holds the mutex
tryLock(m) == ~m

(***************************************************************************)
(* RtLinkedList over a fixed pool.                                         *)
(***************************************************************************)
\* RtLinkedList::append(): copies the item into a free node of the pool;
\* with the pool exhausted the item is dropped and the list is unchanged
append(list, item, used, capacity) ==
    IF used < capacity THEN Append(list, item) ELSE list

\* RtLinkedList::append_sleepy(): the possible results.  With a node of the
\* pool free the item is appended.  With all the nodes the pool was created
\* with in use the call may wait; what it returns with, the item appended or
\* the item given up, is the list class's own affair
append_sleepy(list, item, used, nodes) ==
    IF used < nodes THEN {Append(list, item)} ELSE {Append(list, item), list}

\* LinkedList::clear(): all nodes go back to the pool
clear(list) == << >>

\* the items of a list
Range(seq) == {seq[i] : i \in DOMAIN seq}

\* LinkedList::spliceAppend(): all nodes of `list` go to the tail of `target`,
\* `list` is left empty; result is <<list, target>>
spliceAppend(list, target) == <<(<< >>), target \o list>>

\* LinkedList::getFirst(true): the head item, removed from the list
getFirst(list) == Head(list)
removeFirst(list) == Tail(list)

(***************************************************************************)
(* PostRtEvents                                                            *)
(***************************************************************************)
\* nodes of PostRtEvents::dataPool in use: data and dataPendingRT share the pool
postPoolUsed == Len(data) + Len(dataPendingRT)

\* appendRT as it would be if it took the report mutex around the append
appendRT_locking(rtEvent) ==
    /\ ~postMutex
    /\ dataPendingRT' = append(dataPendingRT, rtEvent, postPoolUsed, kPostRtPoolSize)
    /\ UNCHANGED <<data, postMutex>>

\* appendRT as it would be if dataPendingRT had a pool of its own
appendRT_ownPool(rtEvent) ==
    /\ dataPendingRT' = append(dataPendingRT, rtEvent, Len(dataPendingRT), kPostRtPoolSize)
    /\ UNCHANGED <<data, postMutex>>

\* PostRtEvents::appendRT(event): no mutex is touched
appendRT(rtEvent) ==
    /\ dataPendingRT' = append(dataPendingRT, rtEvent, postPoolUsed, kPostRtPoolSize)
    /\ UNCHANGED <<data, postMutex>>

\* trySplice as it would be if the pending events went in front of `data`
trySplice_prepend ==
    IF tryLock(postMutex)
    THEN /\ dataPendingRT' = << >>
         /\ data' = dataPendingRT \o data
         /\ postMutex' = FALSE
    ELSE UNCHANGED <<data, dataPendingRT, postMutex>>

\* trySplice as it would be without the unlock
trySplice_noUnlock ==
    IF tryLock(postMutex)
    THEN LET r == spliceAppend(dataPendingRT, data) IN
         /\ dataPendingRT' = r[1]
         /\ data' = r[2]
         /\ postMutex' = TRUE
    ELSE UNCHANGED <<data, dataPendingRT, postMutex>>

\* trySplice as it would be if the result of tryLock were ignored
trySplice_ignoreLock ==
    LET r == spliceAppend(dataPendingRT, data) IN
    /\ dataPendingRT' = r[1]
    /\ data' = r[2]
    /\ UNCHANGED postMutex

\* trySplice as it would be if the pending list were cleared instead of moved
trySplice_losing ==
    IF tryLock(postMutex)
    THEN /\ dataPendingRT' = << >>
         /\ data' = data
         /\ postMutex' = FALSE
    ELSE UNCHANGED <<data, dataPendingRT, postMutex>>

\* PostRtEvents::trySplice()
trySplice ==
    IF tryLock(postMutex)
    THEN LET r == spliceAppend(dataPendingRT, data) IN
         /\ dataPendingRT' = r[1]
         /\ data' = r[2]
         /\ postMutex' = FALSE
    ELSE UNCHANGED <<data, dataPendingRT, postMutex>>

\* events the producer may generate: a run in which clear() is called is
\* kept short
eventBudget == IF clears = 0 THEN MaxEvents ELSE MaxClearEvents

\* the real-time producer: event number generated+1 is passed to appendRT
RtProduce ==
    /\ postDtorPc # "destroyed"
    /\ generated < eventBudget
    /\ appendRT(generated + 1)
    /\ generated' = generated + 1
    /\ droppedRT' = IF postPoolUsed < kPostRtPoolSize THEN droppedRT
                    ELSE droppedRT \cup {generated + 1}
    /\ lastPostOp' = IF postPoolUsed < kPostRtPoolSize THEN "appendRT" ELSE "appendRT-dropped"
    /\ UNCHANGED <<delivered, consumerPc>>
    /\ UNCHANGED <<discarded, clearPc, clears, postDtorPc>>
    /\ UNCHANGED notPostVars

\* the maintenance pass
MaintenanceSplice ==
    /\ postDtorPc # "destroyed"
    /\ trySplice
    /\ lastPostOp' = IF postMutex THEN "trySplice-busy" ELSE "trySplice"
    /\ UNCHANGED <<generated, droppedRT, delivered, consumerPc>>
    /\ UNCHANGED <<discarded, clearPc, clears, postDtorPc>>
    /\ UNCHANGED notPostVars

\* the report consumer: lock, take the events of `data` one by one, unlock
ConsumerLock ==
    /\ postDtorPc # "destroyed"
    /\ consumerPc = "idle"
    /\ ~postMutex
    /\ postMutex' = TRUE
    /\ consumerPc' = "locked"
    /\ lastPostOp' = "lock"
    /\ UNCHANGED <<data, dataPendingRT, generated, droppedRT, delivered>>
    /\ UNCHANGED <<discarded, clearPc, clears, postDtorPc>>
    /\ UNCHANGED notPostVars

ConsumerTake ==
    /\ consumerPc = "locked"
    /\ data # << >>
    /\ delivered' = Append(delivered, getFirst(data))
    /\ data' = removeFirst(data)
    /\ lastPostOp' = "take"
    /\ UNCHANGED <<postMutex, dataPendingRT, generated, droppedRT, consumerPc>>
    /\ UNCHANGED <<discarded, clearPc, clears, postDtorPc>>
    /\ UNCHANGED notPostVars

ConsumerUnlock ==
    /\ consumerPc = "locked"
    /\ postMutex' = FALSE
    /\ consumerPc' = "idle"
    /\ lastPostOp' = "unlock"
    /\ UNCHANGED <<data, dataPendingRT, generated, droppedRT, delivered>>
    /\ UNCHANGED <<discarded, clearPc, clears, postDtorPc>>
    /\ UNCHANGED notPostVars

\* PostRtEvents::clear(), line 622: mutex.lock() returns once the mutex is free
PostRtEvents_clear_lock ==
    /\ ~postMutex
    /\ postMutex' = TRUE
    /\ UNCHANGED <<data, dataPendingRT, discarded>>

\* PostRtEvents::clear(), line 623: data.clear()
PostRtEvents_clear_data ==
    /\ data' = clear(data)
    /\ discarded' = discarded \cup Range(data)
    /\ UNCHANGED <<postMutex, dataPendingRT>>

\* PostRtEvents::clear(), line 624: dataPendingRT.clear()
PostRtEvents_clear_pending ==
    /\ dataPendingRT' = clear(dataPendingRT)
    /\ discarded' = discarded \cup Range(dataPendingRT)
    /\ UNCHANGED <<postMutex, data>>

\* PostRtEvents::clear(), line 625: mutex.unlock()
PostRtEvents_clear_unlock ==
    /\ postMutex' = FALSE
    /\ UNCHANGED <<data, dataPendingRT, discarded>>

\* a thread calls clear(): the four statements are four steps, and the other
\* threads run in between
PostClearLock ==
    /\ postDtorPc # "destroyed"
    /\ clearPc = "idle"
    /\ clears < MaxClears
    /\ generated <= MaxClearEvents
    /\ PostRtEvents_clear_lock
    /\ clearPc' = "locked"
    /\ clears' = clears + 1
    /\ lastPostOp' = "clear-lock"
    /\ UNCHANGED <<generated, droppedRT, delivered, consumerPc, postDtorPc>>
    /\ UNCHANGED notPostVars

PostClearData ==
    /\ clearPc = "locked"
    /\ PostRtEvents_clear_data
    /\ clearPc' = "dataCleared"
    /\ lastPostOp' = "clear-data"
    /\ UNCHANGED <<generated, droppedRT, delivered, consumerPc, clears, postDtorPc>>
    /\ UNCHANGED notPostVars

PostClearPending ==
    /\ clearPc = "dataCleared"
    /\ PostRtEvents_clear_pending
    /\ clearPc' = "pendingCleared"
    /\ lastPostOp' = "clear-pending"
    /\ UNCHANGED <<generated, droppedRT, delivered, consumerPc, clears, postDtorPc>>
    /\ UNCHANGED notPostVars

PostClearUnlock ==
    /\ clearPc = "pendingCleared"
    /\ PostRtEvents_clear_unlock
    /\ clearPc' = "idle"
    /\ lastPostOp' = "clear-unlock"
    /\ UNCHANGED <<generated, droppedRT, delivered, consumerPc, clears, postDtorPc>>
    /\ UNCHANGED notPostVars

\* ~PostRtEvents(): calls clear(); when it has returned the lists and the
\* mutex are gone and no operation follows
PostDtorLock ==
    /\ postDtorPc = "alive"
    /\ generated <= MaxClearEvents
    /\ PostRtEvents_clear_lock
    /\ postDtorPc' = "locked"
    /\ clears' = clears + 1
    /\ lastPostOp' = "clear-lock"
    /\ UNCHANGED <<generated, droppedRT, delivered, consumerPc, clearPc>>
    /\ UNCHANGED notPostVars

PostDtorClearData ==
    /\ postDtorPc = "locked"
    /\ PostRtEvents_clear_data
    /\ postDtorPc' = "dataCleared"
    /\ lastPostOp' = "clear-data"
    /\ UNCHANGED <<generated, droppedRT, delivered, consumerPc, clearPc, clears>>
    /\ UNCHANGED notPostVars

PostDtorClearPending ==
    /\ postDtorPc = "dataCleared"
    /\ PostRtEvents_clear_pending
    /\ postDtorPc' = "pendingCleared"
    /\ lastPostOp' = "clear-pending"
    /\ UNCHANGED <<generated, droppedRT, delivered, consumerPc, clearPc, clears>>
    /\ UNCHANGED notPostVars

PostDtorUnlock ==
    /\ postDtorPc = "pendingCleared"
    /\ PostRtEvents_clear_unlock
    /\ postDtorPc' = "destroyed"
    /\ lastPostOp' = "clear-unlock"
    /\ UNCHANGED <<generated, droppedRT, delivered, consumerPc, clearPc, clears>>
    /\ UNCHANGED notPostVars

PostInit ==
    /\ postMutex = FALSE
    /\ data = << >>
    /\ dataPendingRT = << >>
    /\ generated = 0
    /\ droppedRT = {}
    /\ delivered = << >>
    /\ consumerPc = "idle"
    /\ lastPostOp = "none"
    /\ discarded = {}
    /\ clearPc = "idle"
    /\ clears = 0
    /\ postDtorPc = "alive"

PostNext ==
    \/ RtProduce
    \/ MaintenanceSplice
    \/ ConsumerLock
    \/ ConsumerTake
    \/ ConsumerUnlock
    \/ PostClearLock
    \/ PostClearData
    \/ PostClearPending
    \/ PostClearUnlock
    \/ PostDtorLock
    \/ PostDtorClearData
    \/ PostDtorClearPending
    \/ PostDtorUnlock

(***************************************************************************)
(* ExternalNotes                                                           *)
(***************************************************************************)
\* ExternalNotes::append(note), mutex.lock(): waits until the mutex is free
\* variant that does not wait for the mutex
ExtAppendLock_noWait(t) ==
    /\ extDtorPc = "alive"
    /\ extPc[t] = "idle"
    /\ extSent + Cardinality({u \in ControlThreads : extPc[u] # "idle"}) < MaxNotes
    /\ extMutex' = TRUE
    /\ extPc' = [extPc EXCEPT ![t] = "locked"]
    /\ extCallers' = extCallers \cup {t}
    /\ UNCHANGED <<extData, extSent, extDropped, extDelivered, rtPc, rtTaken, extDtorPc>>
    /\ UNCHANGED notExtVars

ExtAppendLock(t) ==
    /\ extDtorPc = "alive"
    /\ extPc[t] = "idle"
    /\ extSent + Cardinality({u \in ControlThreads : extPc[u] # "idle"}) < MaxNotes
    /\ ~extMutex
    /\ extMutex' = TRUE
    /\ extPc' = [extPc EXCEPT ![t] = "locked"]
    /\ extCallers' = extCallers \cup {t}
    /\ UNCHANGED <<extData, extSent, extDropped, extDelivered, rtPc, rtTaken, extDtorPc>>
    /\ UNCHANGED notExtVars

\* ExternalNotes::append(note), data.append_sleepy(note): the note is number
\* extSent+1 in the order of the calls
ExtAppendSleepy(t) ==
    /\ extPc[t] = "locked"
    /\ extData' \in append_sleepy(extData, extSent + 1, Len(extData), kExtPoolNodes)
    /\ extSent' = extSent + 1
    /\ extDropped' = IF extData' = extData THEN extDropped \cup {extSent + 1}
                     ELSE extDropped
    /\ extPc' = [extPc EXCEPT ![t] = "appended"]
    /\ UNCHANGED <<extCallers, extMutex, extDelivered, rtPc, rtTaken, extDtorPc>>
    /\ UNCHANGED notExtVars

\* ExternalNotes::append(note), mutex.unlock()
ExtAppendUnlock(t) ==
    /\ extPc[t] = "appended"
    /\ extMutex' = FALSE
    /\ extPc' = [extPc EXCEPT ![t] = "idle"]
    /\ UNCHANGED <<extCallers, extData, extSent, extDropped, extDelivered, rtPc, rtTaken, extDtorPc>>
    /\ UNCHANGED notExtVars

\* the real-time consumer, start of a block: tryLock; without the mutex the
\* block goes on with no injected notes
RtBlockBegin ==
    /\ extDtorPc = "alive"
    /\ rtPc = "idle"
    /\ IF tryLock(extMutex)
       THEN extMutex' = TRUE /\ rtPc' = "locked"
       ELSE extMutex' = extMutex /\ rtPc' = "skipped"
    /\ rtTaken' = 0
    /\ UNCHANGED <<extCallers, extData, extPc, extSent, extDropped, extDelivered, extDtorPc>>
    /\ UNCHANGED notExtVars

\* the real-time consumer takes the head note, at most DrainPerBlock per block
RtTake ==
    /\ rtPc = "locked"
    /\ extData # << >>
    /\ rtTaken < DrainPerBlock
    /\ extDelivered' = Append(extDelivered, getFirst(extData))
    /\ extData' = removeFirst(extData)
    /\ rtTaken' = rtTaken + 1
    /\ UNCHANGED <<extCallers, extMutex, extPc, extSent, extDropped, rtPc, extDtorPc>>
    /\ UNCHANGED notExtVars

\* the real-time consumer, end of the block: unlock if it had locked
RtBlockEnd ==
    /\ rtPc \in {"locked", "skipped"}
    /\ extMutex' = IF rtPc = "locked" THEN FALSE ELSE extMutex
    /\ rtPc' = "idle"
    /\ rtTaken' = 0
    /\ UNCHANGED <<extCallers, extData, extPc, extSent, extDropped, extDelivered, extDtorPc>>
    /\ UNCHANGED notExtVars

\* ~ExternalNotes(): mutex.lock()
ExtDtorLock ==
    /\ extDtorPc = "alive"
    /\ ~extMutex
    /\ extMutex' = TRUE
    /\ extDtorPc' = "locked"
    /\ UNCHANGED <<extCallers, extData, extPc, extSent, extDropped, extDelivered, rtPc, rtTaken>>
    /\ UNCHANGED notExtVars

\* ~ExternalNotes(): data.clear()
ExtDtorClear ==
    /\ extDtorPc = "locked"
    /\ extData' = clear(extData)
    /\ extDtorPc' = "cleared"
    /\ UNCHANGED <<extCallers, extMutex, extPc, extSent, extDropped, extDelivered, rtPc, rtTaken>>
    /\ UNCHANGED notExtVars

\* ~ExternalNotes(): mutex.unlock()
ExtDtorUnlock ==
    /\ extDtorPc = "cleared"
    /\ extMutex' = FALSE
    /\ extDtorPc' = "destroyed"
    /\ UNCHANGED <<extCallers, extData, extPc, extSent, extDropped, extDelivered, rtPc, rtTaken>>
    /\ UNCHANGED notExtVars

ExtInit ==
    /\ extMutex = FALSE
    /\ extData = << >>
    /\ extPc = [t \in ControlThreads |-> "idle"]
    /\ extSent = 0
    /\ extCallers = {}
    /\ extDropped = {}
    /\ extDelivered = << >>
    /\ rtPc = "idle"
    /\ rtTaken = 0
    /\ extDtorPc = "alive"

ExtNext ==
    \/ \E t \in ControlThreads : ExtAppendLock(t)
    \/ \E t \in ControlThreads : ExtAppendSleepy(t)
    \/ \E t \in ControlThreads : ExtAppendUnlock(t)
    \/ RtBlockBegin
    \/ RtTake
    \/ RtBlockEnd
    \/ ExtDtorLock
    \/ ExtDtorClear
    \/ ExtDtorUnlock

(***************************************************************************)
(* Resource tables.  A pointer to an array is a record: `null` tells       *)
(* whether it is nullptr, `arr` holds the elements it points to.           *)
(***************************************************************************)
nullptr == [null |-> TRUE, arr |-> << >>]
newArray(n, elem) == [null |-> FALSE, arr |-> [i \in 1..n |-> elem]]

\* PluginAudioPort(): rindex(0), port(nullptr)
PluginAudioPort == [rindex |-> 0, port |-> "nullptr"]

\* PluginCVPort(): rindex(0), param(0), port(nullptr)
PluginCVPort == [rindex |-> 0, param |-> 0, port |-> "nullptr"]

\* PluginAudioData(): count(0), ports(nullptr)
PluginAudioData == [count |-> 0, ports |-> nullptr]

\* PluginCVData(): count(0), ports(nullptr)
PluginCVData == [count |-> 0, ports |-> nullptr]

\* PluginEventData(): portIn(nullptr), portOut(nullptr)
PluginEventData == [portIn |-> "nullptr", portOut |-> "nullptr"]

\* PluginParameterData(): count(0), data(nullptr), ranges(nullptr), special(nullptr)
PluginParameterData == [count |-> 0, data |-> nullptr, ranges |-> nullptr, special |-> nullptr]

\* PluginProgramData(): count(0), current(-1), names(nullptr)
PluginProgramData == [count |-> 0, current |-> -1, names |-> nullptr]

\* PluginMidiProgramData(): count(0), current(-1), data(nullptr)
PluginMidiProgramData == [count |-> 0, current |-> -1, data |-> nullptr]

\* createNew that stores the count before it looks at the pointer
PluginAudioData_createNew_countFirst(t, newCount) ==
    IF ~t.ports.null \/ newCount = 0
    THEN [t EXCEPT !.count = newCount]
    ELSE [t EXCEPT !.ports = newArray(newCount, PluginAudioPort), !.count = newCount]

\* PluginAudioData::createNew(newCount)
PluginAudioData_createNew(t, newCount) ==
    IF ~t.ports.null \/ newCount = 0
    THEN t
    ELSE [t EXCEPT !.ports = newArray(newCount, PluginAudioPort), !.count = newCount]

\* clear() that frees the array and keeps the count
PluginAudioData_clear_keepsCount(t) ==
    IF ~t.ports.null THEN [t EXCEPT !.ports = nullptr] ELSE t

\* PluginAudioData::clear()
PluginAudioData_clear(t) ==
    LET freed == IF ~t.ports.null THEN [t EXCEPT !.ports = nullptr] ELSE t
    IN [freed EXCEPT !.count = 0]

\* PluginCVData::createNew(newCount)
PluginCVData_createNew(t, newCount) ==
    IF ~t.ports.null \/ newCount = 0
    THEN t
    ELSE [t EXCEPT !.ports = newArray(newCount, PluginCVPort), !.count = newCount]

\* PluginCVData::clear()
PluginCVData_clear(t) ==
    LET freed == IF ~t.ports.null THEN [t EXCEPT !.ports = nullptr] ELSE t
    IN [freed EXCEPT !.count = 0]

\* PluginEventData::clear()
PluginEventData_clear(t) ==
    LET inFreed == IF t.portIn # "nullptr" THEN [t EXCEPT !.portIn = "nullptr"] ELSE t
    IN IF inFreed.portOut # "nullptr" THEN [inFreed EXCEPT !.portOut = "nullptr"] ELSE inFreed

\* PluginParameterData::createNew(newCount, withSpecial)
PluginParameterData_createNew(t, newCount, withSpecial) ==
    IF ~t.data.null \/ ~t.ranges.null \/ newCount = 0
    THEN t
    ELSE [t EXCEPT !.data = newArray(newCount, "ParameterData"),
                   !.ranges = newArray(newCount, "ParameterRanges"),
                   !.count = newCount,
                   !.special = IF withSpecial
                               THEN newArray(newCount, "SpecialParameterType")
                               ELSE t.special]

\* PluginParameterData::clear()
PluginParameterData_clear(t) ==
    LET d == IF ~t.data.null THEN [t EXCEPT !.data = nullptr] ELSE t
        r == IF ~d.ranges.null THEN [d EXCEPT !.ranges = nullptr] ELSE d
        sp == IF ~r.special.null THEN [r EXCEPT !.special = nullptr] ELSE r
    IN [sp EXCEPT !.count = 0]

\* createNew without the check of the pointer: a new array replaces the old one
PluginProgramData_createNew_realloc(t, newCount) ==
    IF newCount = 0
    THEN t
    ELSE [t EXCEPT !.names = newArray(newCount, "nullptr"), !.count = newCount]

\* PluginProgramData::createNew(newCount)
PluginProgramData_createNew(t, newCount) ==
    IF ~t.names.null \/ newCount = 0
    THEN t
    ELSE [t EXCEPT !.names = newArray(newCount, "nullptr"), !.count = newCount]

\* clear that frees the names and the array but leaves the pointer set
PluginProgramData_clear_dangling(t) ==
    [t EXCEPT !.count = 0, !.current = -1]

\* PluginProgramData::clear()
PluginProgramData_clear(t) ==
    LET freed == IF ~t.names.null THEN [t EXCEPT !.names = nullptr] ELSE t
    IN [freed EXCEPT !.count = 0, !.current = -1]

\* MidiProgramData as createNew initialises it: bank 0, program 0, name nullptr
MidiProgramData == [bank |-> 0, program |-> 0, name |-> "nullptr"]

\* PluginMidiProgramData::createNew(newCount)
PluginMidiProgramData_createNew(t, newCount) ==
    IF ~t.data.null \/ newCount = 0
    THEN t
    ELSE [t EXCEPT !.data = newArray(newCount, MidiProgramData), !.count = newCount]

\* clear that forgets to reset the selection
PluginMidiProgramData_clear_keepsCurrent(t) ==
    LET freed == IF ~t.data.null THEN [t EXCEPT !.data = nullptr] ELSE t
    IN [freed EXCEPT !.count = 0]

\* PluginMidiProgramData::clear()
PluginMidiProgramData_clear(t) ==
    LET freed == IF ~t.data.null THEN [t EXCEPT !.data = nullptr] ELSE t
    IN [freed EXCEPT !.count = 0, !.current = -1]

\* no getCurrent() yet
noRead == [asserted |-> FALSE, result |-> "none"]

\* PluginMidiProgramData::getCurrent(): CARLA_ASSERT_INT2 reports a current
\* outside [0, count) and execution goes on to `return data[current]`.  With
\* current inside the array the element is returned; outside it (or with data
\* nullptr) the read is undefined: it returns whatever lies there or faults
PluginMidiProgramData_getCurrent(t) ==
    LET inRange == t.current >= 0 /\ t.current < t.count
        inArray == ~t.data.null /\ t.current >= 0 /\ t.current < Len(t.data.arr)
    IN IF inArray
       THEN {[asserted |-> ~inRange, result |-> "element"]}
       ELSE {[asserted |-> ~inRange, result |-> r] : r \in {"garbage", "fault"}}

\* outcome recorded for a createNew
createOutcome(before, after) ==
    IF after = before THEN "createNew-ignored" ELSE "createNew"

\* outcome recorded for a clear: of a table that held something, of an idle
\* table, or right after the clear of a table that held something
clearOutcome(wasAllocated) ==
    IF wasAllocated THEN "clear"
    ELSE IF lastTableOp \in {"clear", "clear-again"} THEN "clear-again"
    ELSE "clear-idle"

\* the trail of createNew and clear calls after one more call; it keeps the
\* last TrailLen calls
trail(op, n) ==
    LET t == Append(tableTrail, [op |-> op, n |-> n])
    IN IF Len(t) > TrailLen THEN Tail(t) ELSE t

\* ---- operations of the control thread on the table under test ----
AudioCreateNew ==
    /\ tableUnderTest = "audio"
    /\ \E newCount \in 0..MaxCount :
         /\ audioIn' = PluginAudioData_createNew(audioIn, newCount)
         /\ lastTableOp' = createOutcome(audioIn, audioIn')
         /\ tableTrail' = trail("createNew", newCount)
    /\ UNCHANGED <<cv, event, param, prog, midiprog, tableUnderTest, audioOut, lastRead>>
    /\ UNCHANGED notTableVars

\* the plugin registers or drops the engine port of entry i
AudioSetPort ==
    /\ tableUnderTest = "audio"
    /\ \E i \in 1..audioIn.count, p \in {"nullptr", "port"} :
         audioIn' = [audioIn EXCEPT !.ports.arr[i].port = p]
    /\ lastTableOp' = "set"
    /\ UNCHANGED tableTrail
    /\ UNCHANGED <<cv, event, param, prog, midiprog, tableUnderTest, audioOut, lastRead>>
    /\ UNCHANGED notTableVars

AudioClear ==
    /\ tableUnderTest = "audio"
    /\ audioIn' = PluginAudioData_clear(audioIn)
    /\ lastTableOp' = clearOutcome(~audioIn.ports.null)
    /\ tableTrail' = trail("clear", 0)
    /\ UNCHANGED <<cv, event, param, prog, midiprog, tableUnderTest, audioOut, lastRead>>
    /\ UNCHANGED notTableVars

CVCreateNew ==
    /\ tableUnderTest = "cv"
    /\ \E newCount \in 0..MaxCount :
         /\ cv' = PluginCVData_createNew(cv, newCount)
         /\ lastTableOp' = createOutcome(cv, cv')
         /\ tableTrail' = trail("createNew", newCount)
    /\ UNCHANGED <<audioIn, event, param, prog, midiprog, tableUnderTest, audioOut, lastRead>>
    /\ UNCHANGED notTableVars

CVSetPort ==
    /\ tableUnderTest = "cv"
    /\ \E i \in 1..cv.count, p \in {"nullptr", "port"} :
         cv' = [cv EXCEPT !.ports.arr[i].port = p]
    /\ lastTableOp' = "set"
    /\ UNCHANGED tableTrail
    /\ UNCHANGED <<audioIn, event, param, prog, midiprog, tableUnderTest, audioOut, lastRead>>
    /\ UNCHANGED notTableVars

CVClear ==
    /\ tableUnderTest = "cv"
    /\ cv' = PluginCVData_clear(cv)
    /\ lastTableOp' = clearOutcome(~cv.ports.null)
    /\ tableTrail' = trail("clear", 0)
    /\ UNCHANGED <<audioIn, event, param, prog, midiprog, tableUnderTest, audioOut, lastRead>>
    /\ UNCHANGED notTableVars

\* the plugin registers or drops its event ports
EventSetPorts ==
    /\ tableUnderTest = "event"
    /\ \E pIn \in {"nullptr", "port"}, pOut \in {"nullptr", "port"} :
         event' = [portIn |-> pIn, portOut |-> pOut]
    /\ lastTableOp' = "set"
    /\ UNCHANGED tableTrail
    /\ UNCHANGED <<audioIn, cv, param, prog, midiprog, tableUnderTest, audioOut, lastRead>>
    /\ UNCHANGED notTableVars

EventClear ==
    /\ tableUnderTest = "event"
    /\ event' = PluginEventData_clear(event)
    /\ lastTableOp' = clearOutcome(event # PluginEventData)
    /\ tableTrail' = trail("clear", 0)
    /\ UNCHANGED <<audioIn, cv, param, prog, midiprog, tableUnderTest, audioOut, lastRead>>
    /\ UNCHANGED notTableVars

ParamCreateNew ==
    /\ tableUnderTest = "param"
    /\ \E newCount \in 0..MaxCount, withSpecial \in BOOLEAN :
         /\ param' = PluginParameterData_createNew(param, newCount, withSpecial)
         /\ lastTableOp' = createOutcome(param, param')
         /\ tableTrail' = trail("createNew", newCount)
    /\ UNCHANGED <<audioIn, cv, event, prog, midiprog, tableUnderTest, audioOut, lastRead>>
    /\ UNCHANGED notTableVars

ParamClear ==
    /\ tableUnderTest = "param"
    /\ param' = PluginParameterData_clear(param)
    /\ lastTableOp' = clearOutcome(~param.data.null)
    /\ tableTrail' = trail("clear", 0)
    /\ UNCHANGED <<audioIn, cv, event, prog, midiprog, tableUnderTest, audioOut, lastRead>>
    /\ UNCHANGED notTableVars

ProgCreateNew ==
    /\ tableUnderTest = "prog"
    /\ \E newCount \in 0..MaxCount :
         /\ prog' = PluginProgramData_createNew(prog, newCount)
         /\ lastTableOp' = createOutcome(prog, prog')
         /\ tableTrail' = trail("createNew", newCount)
    /\ UNCHANGED <<audioIn, cv, event, param, midiprog, tableUnderTest, audioOut, lastRead>>
    /\ UNCHANGED notTableVars

\* the plugin stores or drops the name of program i
ProgSetName ==
    /\ tableUnderTest = "prog"
    /\ \E i \in 1..prog.count, n \in {"nullptr", "name"} :
         prog' = [prog EXCEPT !.names.arr[i] = n]
    /\ lastTableOp' = "set"
    /\ UNCHANGED tableTrail
    /\ UNCHANGED <<audioIn, cv, event, param, midiprog, tableUnderTest, audioOut, lastRead>>
    /\ UNCHANGED notTableVars

\* a program is selected: -1 (none) or an index below count
ProgSetCurrent ==
    /\ tableUnderTest = "prog"
    /\ \E c \in -1..(prog.count - 1) : prog' = [prog EXCEPT !.current = c]
    /\ lastTableOp' = "set"
    /\ UNCHANGED tableTrail
    /\ UNCHANGED <<audioIn, cv, event, param, midiprog, tableUnderTest, audioOut, lastRead>>
    /\ UNCHANGED notTableVars

ProgClear ==
    /\ tableUnderTest = "prog"
    /\ prog' = PluginProgramData_clear(prog)
    /\ lastTableOp' = clearOutcome(~prog.names.null)
    /\ tableTrail' = trail("clear", 0)
    /\ UNCHANGED <<audioIn, cv, event, param, midiprog, tableUnderTest, audioOut, lastRead>>
    /\ UNCHANGED notTableVars

MidiProgCreateNew ==
    /\ tableUnderTest = "midiprog"
    /\ \E newCount \in 0..MaxCount :
         /\ midiprog' = PluginMidiProgramData_createNew(midiprog, newCount)
         /\ lastTableOp' = createOutcome(midiprog, midiprog')
         /\ tableTrail' = trail("createNew", newCount)
    /\ UNCHANGED <<audioIn, cv, event, param, prog, tableUnderTest, audioOut, lastRead>>
    /\ UNCHANGED notTableVars

\* the plugin stores or drops the name of MIDI program i
MidiProgSetName ==
    /\ tableUnderTest = "midiprog"
    /\ \E i \in 1..midiprog.count, n \in {"nullptr", "name"} :
         midiprog' = [midiprog EXCEPT !.data.arr[i].name = n]
    /\ lastTableOp' = "set"
    /\ UNCHANGED tableTrail
    /\ UNCHANGED <<audioIn, cv, event, param, prog, tableUnderTest, audioOut, lastRead>>
    /\ UNCHANGED notTableVars

\* a MIDI program is selected: -1 (none) or an index below count
MidiProgSetCurrent ==
    /\ tableUnderTest = "midiprog"
    /\ \E c \in -1..(midiprog.count - 1) : midiprog' = [midiprog EXCEPT !.current = c]
    /\ lastTableOp' = "set"
    /\ UNCHANGED tableTrail
    /\ UNCHANGED <<audioIn, cv, event, param, prog, tableUnderTest, audioOut, lastRead>>
    /\ UNCHANGED notTableVars

MidiProgClear ==
    /\ tableUnderTest = "midiprog"
    /\ midiprog' = PluginMidiProgramData_clear(midiprog)
    /\ lastTableOp' = clearOutcome(~midiprog.data.null)
    /\ tableTrail' = trail("clear", 0)
    /\ UNCHANGED <<audioIn, cv, event, param, prog, tableUnderTest, audioOut, lastRead>>
    /\ UNCHANGED notTableVars

\* the current MIDI program is read
MidiProgGetCurrent ==
    /\ tableUnderTest = "midiprog"
    /\ lastRead' \in PluginMidiProgramData_getCurrent(midiprog)
    /\ UNCHANGED <<audioIn, audioOut, cv, event, param, prog, midiprog, tableUnderTest,
                   lastTableOp, tableTrail>>
    /\ UNCHANGED notTableVars

TableKinds == {"audio", "cv", "event", "param", "prog", "midiprog"}

TableInit ==
    /\ audioIn = PluginAudioData
    /\ cv = PluginCVData
    /\ event = PluginEventData
    /\ param = PluginParameterData
    /\ prog = PluginProgramData
    /\ midiprog = PluginMidiProgramData
    /\ audioOut = PluginAudioData
    /\ lastTableOp = "none"
    /\ tableTrail = << >>
    /\ lastRead = noRead

TableNext ==
    \/ AudioCreateNew
    \/ AudioSetPort
    \/ AudioClear
    \/ CVCreateNew
    \/ CVSetPort
    \/ CVClear
    \/ EventSetPorts
    \/ EventClear
    \/ ParamCreateNew
    \/ ParamClear
    \/ ProgCreateNew
    \/ ProgSetName
    \/ ProgSetCurrent
    \/ ProgClear
    \/ MidiProgCreateNew
    \/ MidiProgSetName
    \/ MidiProgSetCurrent
    \/ MidiProgClear
    \/ MidiProgGetCurrent

(***************************************************************************)
(* ~CarlaPluginProtectedData.  The destructor runs on the thread           *)
(* "destroyer"; "other" stands for every other thread.                     *)
(***************************************************************************)
\* CarlaMutex::unlock() by the destructor: releases the destroyer's lock;
\* on a mutex held by another thread the outcome depends on the build
unlockResults(m) == IF m = "other" THEN {"nobody", "other"} ELSE {"nobody"}

\* CarlaPluginProtectedData::clearBuffers(): the port and parameter tables
clearBuffers ==
    /\ audioIn' = PluginAudioData_clear(audioIn)
    /\ audioOut' = PluginAudioData_clear(audioOut)
    /\ event' = PluginEventData_clear(event)
    /\ param' = PluginParameterData_clear(param)

\* CarlaPluginProtectedData::libClose()
libClose == lib' = "nullptr"

\* lines 694-718: CARLA_SAFE_ASSERT(! needsReset), the four strings are freed
DtorStrings ==
    /\ dtorPc = "start"
    /\ asserts' = IF needsReset THEN asserts \cup {"needsReset"} ELSE asserts
    /\ strings' = {}
    /\ dtorPc' = "tryLock"
    /\ UNCHANGED <<masterMutex, singleMutex, needsReset, client, custom, lib, uiLib,
                   lockMaster, lockSingle, seenMaster, seenSingle, atUnlock>>
    /\ UNCHANGED <<audioIn, audioOut, cv, event, param, prog, midiprog>>
    /\ UNCHANGED notDtorVars

\* the tryLock block with the assertions as the design document states them:
\* passing when the tryLock succeeds
DtorTryLock_assertAcquired ==
    /\ dtorPc = "tryLock"
    /\ lockMaster' = tryLock(masterMutex # "nobody")
    /\ lockSingle' = tryLock(singleMutex # "nobody")
    /\ masterMutex' = IF lockMaster' THEN "destroyer" ELSE masterMutex
    /\ singleMutex' = IF lockSingle' THEN "destroyer" ELSE singleMutex
    /\ seenMaster' = masterMutex
    /\ seenSingle' = singleMutex
    /\ asserts' = asserts \cup (IF ~lockMaster' THEN {"lockMaster"} ELSE {})
                          \cup (IF ~lockSingle' THEN {"lockSingle"} ELSE {})
    /\ dtorPc' = "client"
    /\ UNCHANGED <<needsReset, strings, client, custom, lib, uiLib, atUnlock>>
    /\ UNCHANGED <<audioIn, audioOut, cv, event, param, prog, midiprog>>
    /\ UNCHANGED notDtorVars

\* lines 720-726: tryLock on both mutexes, CARLA_SAFE_ASSERT(! lockMaster),
\* CARLA_SAFE_ASSERT(! lockSingle)
DtorTryLock ==
    /\ dtorPc = "tryLock"
    /\ lockMaster' = tryLock(masterMutex # "nobody")
    /\ lockSingle' = tryLock(singleMutex # "nobody")
    /\ masterMutex' = IF lockMaster' THEN "destroyer" ELSE masterMutex
    /\ singleMutex' = IF lockSingle' THEN "destroyer" ELSE singleMutex
    /\ seenMaster' = masterMutex
    /\ seenSingle' = singleMutex
    /\ asserts' = asserts \cup (IF lockMaster' THEN {"lockMaster"} ELSE {})
                          \cup (IF lockSingle' THEN {"lockSingle"} ELSE {})
    /\ dtorPc' = "client"
    /\ UNCHANGED <<needsReset, strings, client, custom, lib, uiLib, atUnlock>>
    /\ UNCHANGED <<audioIn, audioOut, cv, event, param, prog, midiprog>>
    /\ UNCHANGED notDtorVars

\* the client block without the deactivation of an active client
DtorClient_keepsActive ==
    /\ dtorPc = "client"
    /\ dtorPc' = IF client = "nullptr" THEN "custom" ELSE "clearBuffers"
    /\ UNCHANGED <<masterMutex, singleMutex, needsReset, strings, client, custom, lib,
                   uiLib, lockMaster, lockSingle, seenMaster, seenSingle, atUnlock, asserts>>
    /\ UNCHANGED <<audioIn, audioOut, cv, event, param, prog, midiprog>>
    /\ UNCHANGED notDtorVars

\* lines 728-735: without a client go on to the custom data; an active client
\* is reported and deactivated
DtorClient ==
    /\ dtorPc = "client"
    /\ IF client = "nullptr"
       THEN /\ dtorPc' = "custom"
            /\ UNCHANGED <<client, asserts>>
       ELSE /\ dtorPc' = "clearBuffers"
            /\ client' = "inactive"
            /\ asserts' = IF client = "active"
                          THEN asserts \cup {"client->isActive()"} ELSE asserts
    /\ UNCHANGED <<masterMutex, singleMutex, needsReset, strings, custom, lib, uiLib,
                   lockMaster, lockSingle, seenMaster, seenSingle, atUnlock>>
    /\ UNCHANGED <<audioIn, audioOut, cv, event, param, prog, midiprog>>
    /\ UNCHANGED notDtorVars

\* line 737: clearBuffers()
DtorClearBuffers ==
    /\ dtorPc = "clearBuffers"
    /\ clearBuffers
    /\ dtorPc' = "deleteClient"
    /\ UNCHANGED <<masterMutex, singleMutex, needsReset, strings, client, custom, lib,
                   uiLib, lockMaster, lockSingle, seenMaster, seenSingle, atUnlock, asserts>>
    /\ UNCHANGED <<cv, prog, midiprog>>
    /\ UNCHANGED notDtorVars

\* lines 739-740: delete client; client = nullptr
DtorDeleteClient ==
    /\ dtorPc = "deleteClient"
    /\ client' = "nullptr"
    /\ dtorPc' = "custom"
    /\ UNCHANGED <<masterMutex, singleMutex, needsReset, strings, custom, lib, uiLib,
                   lockMaster, lockSingle, seenMaster, seenSingle, atUnlock, asserts>>
    /\ UNCHANGED <<audioIn, audioOut, cv, event, param, prog, midiprog>>
    /\ UNCHANGED notDtorVars

\* lines 743-770: type, key and value of every CustomData are freed; one that
\* is nullptr already is reported
DtorCustomStrings ==
    /\ dtorPc = "custom"
    /\ custom' = [i \in DOMAIN custom |->
                     [type |-> "nullptr", key |-> "nullptr", value |-> "nullptr"]]
    /\ asserts' = asserts
         \cup (IF \E i \in DOMAIN custom : custom[i].type = "nullptr"
               THEN {"cData.type != nullptr"} ELSE {})
         \cup (IF \E i \in DOMAIN custom : custom[i].key = "nullptr"
               THEN {"cData.key != nullptr"} ELSE {})
         \cup (IF \E i \in DOMAIN custom : custom[i].value = "nullptr"
               THEN {"cData.value != nullptr"} ELSE {})
    /\ dtorPc' = "tables"
    /\ UNCHANGED <<masterMutex, singleMutex, needsReset, strings, client, lib, uiLib,
                   lockMaster, lockSingle, seenMaster, seenSingle, atUnlock>>
    /\ UNCHANGED <<audioIn, audioOut, cv, event, param, prog, midiprog>>
    /\ UNCHANGED notDtorVars

\* lines 772-774: prog.clear(); midiprog.clear(); custom.clear()
DtorClearTables ==
    /\ dtorPc = "tables"
    /\ prog' = PluginProgramData_clear(prog)
    /\ midiprog' = PluginMidiProgramData_clear(midiprog)
    /\ custom' = clear(custom)
    /\ dtorPc' = "unlock"
    /\ UNCHANGED <<masterMutex, singleMutex, needsReset, strings, client, lib, uiLib,
                   lockMaster, lockSingle, seenMaster, seenSingle, atUnlock, asserts>>
    /\ UNCHANGED <<audioIn, audioOut, cv, event, param>>
    /\ UNCHANGED notDtorVars

\* line 777: masterMutex.unlock()
DtorUnlockMaster ==
    /\ dtorPc = "unlock"
    /\ masterMutex' \in unlockResults(masterMutex)
    /\ atUnlock' = [atUnlock EXCEPT !.master = masterMutex]
    /\ dtorPc' = "unlockSingle"
    /\ UNCHANGED <<singleMutex, needsReset, strings, client, custom, lib, uiLib,
                   lockMaster, lockSingle, seenMaster, seenSingle, asserts>>
    /\ UNCHANGED <<audioIn, audioOut, cv, event, param, prog, midiprog>>
    /\ UNCHANGED notDtorVars

\* line 778: singleMutex.unlock()
DtorUnlockSingle ==
    /\ dtorPc = "unlockSingle"
    /\ singleMutex' \in unlockResults(singleMutex)
    /\ atUnlock' = [atUnlock EXCEPT !.single = singleMutex]
    /\ dtorPc' = "lib"
    /\ UNCHANGED <<masterMutex, needsReset, strings, client, custom, lib, uiLib,
                   lockMaster, lockSingle, seenMaster, seenSingle, asserts>>
    /\ UNCHANGED <<audioIn, audioOut, cv, event, param, prog, midiprog>>
    /\ UNCHANGED notDtorVars

\* the end of the destructor without the libClose() call
DtorLib_noClose ==
    /\ dtorPc = "lib"
    /\ asserts' = IF uiLib # "nullptr" THEN asserts \cup {"uiLib == nullptr"} ELSE asserts
    /\ dtorPc' = "members"
    /\ UNCHANGED <<masterMutex, singleMutex, needsReset, strings, client, custom, lib,
                   uiLib, lockMaster, lockSingle, seenMaster, seenSingle, atUnlock>>
    /\ UNCHANGED <<audioIn, audioOut, cv, event, param, prog, midiprog>>
    /\ UNCHANGED notDtorVars

\* lines 780-783: if (lib != nullptr) libClose(); CARLA_ASSERT(uiLib == nullptr)
DtorLib ==
    /\ dtorPc = "lib"
    /\ IF lib # "nullptr" THEN libClose ELSE UNCHANGED lib
    /\ asserts' = IF uiLib # "nullptr" THEN asserts \cup {"uiLib == nullptr"} ELSE asserts
    /\ dtorPc' = "members"
    /\ UNCHANGED <<masterMutex, singleMutex, needsReset, strings, client, custom, uiLib,
                   lockMaster, lockSingle, seenMaster, seenSingle, atUnlock>>
    /\ UNCHANGED <<audioIn, audioOut, cv, event, param, prog, midiprog>>
    /\ UNCHANGED notDtorVars

\* the assertions of the tables' own destructors, which run on the members
\* once the body of ~CarlaPluginProtectedData has returned
memberAsserts ==
    (IF audioIn # PluginAudioData THEN {"~PluginAudioData: audioIn"} ELSE {})
    \cup (IF audioOut # PluginAudioData THEN {"~PluginAudioData: audioOut"} ELSE {})
    \cup (IF event # PluginEventData THEN {"~PluginEventData"} ELSE {})
    \cup (IF param # PluginParameterData THEN {"~PluginParameterData"} ELSE {})
    \cup (IF prog # PluginProgramData THEN {"~PluginProgramData"} ELSE {})
    \cup (IF midiprog # PluginMidiProgramData THEN {"~PluginMidiProgramData"} ELSE {})

\* the members are destroyed in the reverse order of their declaration,
\* postRtEvents first: ~PostRtEvents, statement by statement
DtorPostRtEvents ==
    /\ dtorPc = "members"
    /\ \/ PostDtorLock
       \/ PostDtorClearData
       \/ PostDtorClearPending
       \/ PostDtorUnlock

\* then extNotes: ~ExternalNotes, statement by statement
DtorExternalNotes ==
    /\ dtorPc = "members"
    /\ postDtorPc = "destroyed"
    /\ \/ ExtDtorLock
       \/ ExtDtorClear
       \/ ExtDtorUnlock

\* then the tables: each table's destructor reports a table that is not idle
\* and frees nothing
DtorTables ==
    /\ dtorPc = "members"
    /\ extDtorPc = "destroyed"
    /\ asserts' = asserts \cup memberAsserts
    /\ dtorPc' = "done"
    /\ UNCHANGED <<masterMutex, singleMutex, needsReset, strings, client, custom, lib,
                   uiLib, lockMaster, lockSingle, seenMaster, seenSingle, atUnlock>>
    /\ UNCHANGED <<audioIn, audioOut, cv, event, param, prog, midiprog>>
    /\ UNCHANGED notDtorVars

\* another thread takes a mutex that is free (CarlaMutex::lock or tryLock)
OtherThreadLock ==
    /\ dtorPc # "done"
    /\ \/ masterMutex = "nobody" /\ masterMutex' = "other" /\ UNCHANGED singleMutex
       \/ singleMutex = "nobody" /\ singleMutex' = "other" /\ UNCHANGED masterMutex
    /\ UNCHANGED <<needsReset, strings, client, custom, lib, uiLib, dtorPc,
                   lockMaster, lockSingle, seenMaster, seenSingle, atUnlock, asserts>>
    /\ UNCHANGED <<audioIn, audioOut, cv, event, param, prog, midiprog>>
    /\ UNCHANGED notDtorVars

\* another thread releases a mutex it holds (CarlaMutex::unlock)
OtherThreadUnlock ==
    /\ dtorPc # "done"
    /\ \/ masterMutex = "other" /\ masterMutex' = "nobody" /\ UNCHANGED singleMutex
       \/ singleMutex = "other" /\ singleMutex' = "nobody" /\ UNCHANGED masterMutex
    /\ UNCHANGED <<needsReset, strings, client, custom, lib, uiLib, dtorPc,
                   lockMaster, lockSingle, seenMaster, seenSingle, atUnlock, asserts>>
    /\ UNCHANGED <<audioIn, audioOut, cv, event, param, prog, midiprog>>
    /\ UNCHANGED notDtorVars

\* a CustomData entry; its three strings are set when it was stored properly
CustomData(ok) ==
    [type |-> IF ok THEN "string" ELSE "nullptr", key |-> "string", value |-> "string"]

\* the report queue with events queued and the consumer inside the mutex:
\* appendRT(1), trySplice(), appendRT(2) and the consumer's lock have run
PostBusy ==
    /\ postMutex = TRUE
    /\ data = <<1>>
    /\ dataPendingRT = <<2>>
    /\ generated = 2
    /\ droppedRT = {}
    /\ delivered = << >>
    /\ consumerPc = "locked"
    /\ lastPostOp = "lock"
    /\ discarded = {}
    /\ clearPc = "idle"
    /\ clears = 0
    /\ postDtorPc = "alive"

\* the injection queue with a note queued and the real-time consumer inside
\* the mutex: thread 1 has appended note 1 and a block has begun
ExtBusy ==
    /\ extMutex = TRUE
    /\ extData = <<1>>
    /\ extPc = [t \in ControlThreads |-> "idle"]
    /\ extSent = 1
    /\ extCallers = {1}
    /\ extDropped = {}
    /\ extDelivered = << >>
    /\ rtPc = "locked"
    /\ rtTaken = 0
    /\ extDtorPc = "alive"

\* the context at the moment its destructor is called: the mutexes free, held
\* by the destroying thread or by another one; no client, or one that is
\* active or not; tables allocated or not; each queue as constructed, or in
\* use by a thread that finishes what it is doing and starts nothing new
InitDtor ==
    /\ \/ PostInit /\ ExtInit
       \/ PostBusy /\ ExtBusy
    /\ tableUnderTest = "audio"
    /\ lastTableOp = "none"
    /\ tableTrail = << >>
    /\ lastRead = noRead
    /\ cv = PluginCVData
    /\ \E n \in {0, 1} :
         /\ audioIn = PluginAudioData_createNew(PluginAudioData, n)
         /\ audioOut = PluginAudioData_createNew(PluginAudioData, n)
         /\ param = PluginParameterData_createNew(PluginParameterData, n, TRUE)
         /\ event = [portIn |-> IF n = 0 THEN "nullptr" ELSE "port", portOut |-> "nullptr"]
    /\ \E n \in {0, 1} :
         prog = [PluginProgramData_createNew(PluginProgramData, n) EXCEPT !.current = n - 1]
    /\ \E n \in {0, 1} :
         midiprog = [PluginMidiProgramData_createNew(PluginMidiProgramData, n)
                        EXCEPT !.current = n - 1]
    /\ masterMutex \in {"nobody", "destroyer", "other"}
    /\ singleMutex \in {"nobody", "destroyer", "other"}
    /\ needsReset \in BOOLEAN
    /\ strings \in {{}, {"name", "filename", "iconName", "identifier"}}
    /\ client \in {"nullptr", "active", "inactive"}
    /\ custom \in {<< >>, <<CustomData(TRUE)>>, <<CustomData(FALSE)>>}
    /\ lib \in {"nullptr", "open"}
    /\ uiLib \in {"nullptr", "open"}
    /\ dtorPc = "start"
    /\ lockMaster = FALSE
    /\ lockSingle = FALSE
    /\ seenMaster = "untried"
    /\ seenSingle = "untried"
    /\ atUnlock = [master |-> "untried", single |-> "untried"]
    /\ asserts = {}
    /\ atEntry = [client |-> client, lib |-> lib, uiLib |-> uiLib,
                  audioInCount |-> audioIn.count]

DtorNext ==
    \/ DtorStrings
    \/ DtorTryLock
    \/ DtorClient
    \/ DtorClearBuffers
    \/ DtorDeleteClient
    \/ DtorCustomStrings
    \/ DtorClearTables
    \/ DtorUnlockMaster
    \/ DtorUnlockSingle
    \/ DtorLib
    \/ DtorPostRtEvents
    \/ DtorExternalNotes
    \/ DtorTables
    \/ OtherThreadLock
    \/ OtherThreadUnlock
    \/ ConsumerTake
    \/ ConsumerUnlock
    \/ RtTake
    \/ RtBlockEnd

\* the parts of the context the queue and table specifications leave alone
DtorIdle ==
    /\ masterMutex = "nobody"
    /\ singleMutex = "nobody"
    /\ needsReset = FALSE
    /\ strings = {}
    /\ client = "nullptr"
    /\ custom = << >>
    /\ lib = "nullptr"
    /\ uiLib = "nullptr"
    /\ dtorPc = "start"
    /\ lockMaster = FALSE
    /\ lockSingle = FALSE
    /\ seenMaster = "untried"
    /\ seenSingle = "untried"
    /\ atUnlock = [master |-> "untried", single |-> "untried"]
    /\ asserts = {}
    /\ atEntry = [client |-> client, lib |-> lib, uiLib |-> uiLib,
                  audioInCount |-> audioIn.count]

Init ==
    /\ PostInit
    /\ ExtInit
    /\ TableInit
    /\ tableUnderTest = "audio"
    /\ DtorIdle

\* the tables are separate objects: each run works on one of them
InitTables ==
    /\ PostInit
    /\ ExtInit
    /\ TableInit
    /\ tableUnderTest \in TableKinds
    /\ DtorIdle

SpecReport == Init /\ [][PostNext]_vars

SpecNotes == Init /\ [][ExtNext]_vars

SpecTables == InitTables /\ [][TableNext]_vars

SpecDtor == InitDtor /\ [][DtorNext]_vars

(***************************************************************************)
(* Properties of the report queue, checked under SpecReport.               *)
(***************************************************************************)
\* seq lists the members of S in ascending order, each once
IsAscendingListOf(seq, S) ==
    /\ Len(seq) = Cardinality(S)
    /\ \A i \in 1..Len(seq) : seq[i] \in S
    /\ \A i \in 1..(Len(seq) - 1) : seq[i] < seq[i + 1]

\* C1: while no appendRT has met an exhausted pool (the undelivered events never
\* exceeded the pool capacity) and clear() has removed no event, the events
\* delivered, followed by those spliced and those still pending, are exactly
\* the events generated, each once and in the order of generation
C1_ReportDeliveryInOrder ==
    (droppedRT = {} /\ discarded = {}) =>
        /\ Len(delivered) + Len(data) + Len(dataPendingRT) = generated
        /\ \A i \in 1..Len(delivered) : delivered[i] = i
        /\ \A i \in 1..Len(data) : data[i] = Len(delivered) + i
        /\ \A i \in 1..Len(dataPendingRT) :
              dataPendingRT[i] = Len(delivered) + Len(data) + i

\* several events delivered, more spliced and more pending, nothing dropped
\* or cleared
C1_Witness ==
    /\ droppedRT = {}
    /\ discarded = {}
    /\ Len(delivered) >= 2
    /\ Len(data) >= 2
    /\ Len(dataPendingRT) >= 2

\* C2: appendRT never waits for the report mutex and never changes it: while
\* the mutex is held, by the consumer, by clear() or by the destructor, the
\* producer's appendRT is still enabled, and an appendRT step leaves the mutex
\* as it was
C2_AppendRTNeverLocks ==
    /\ []((postMutex /\ generated < eventBudget) => ENABLED RtProduce)
    /\ [][RtProduce => postMutex' = postMutex]_vars

\* an appendRT has just completed while the consumer holds the mutex
C2_Witness ==
    /\ postMutex
    /\ consumerPc = "locked"
    /\ lastPostOp = "appendRT"

\* C4: an appendRT that finds all pool nodes in use leaves dataPendingRT, data
\* and the mutex exactly as they were, and is enabled in that state
C4_ExhaustedAppendDrops ==
    /\ []((Len(data) + Len(dataPendingRT) >= kPostRtPoolSize /\ generated < eventBudget)
            => ENABLED RtProduce)
    /\ [][(RtProduce /\ Len(data) + Len(dataPendingRT) >= kPostRtPoolSize)
            => /\ dataPendingRT' = dataPendingRT
               /\ data' = data
               /\ postMutex' = postMutex
               /\ delivered' = delivered]_vars

\* an appendRT was dropped while events were both spliced and pending
C4_Witness ==
    /\ lastPostOp = "appendRT-dropped"
    /\ Len(data) > 0
    /\ Len(dataPendingRT) > 0
    /\ Len(dataPendingRT) < kPostRtPoolSize

\* C5: a trySplice that finds the mutex free leaves dataPendingRT empty and
\* `data` equal to its old contents followed by the old pending events, so its
\* length grows by the number of pending events, and the mutex is free again
C5_SpliceMovesAll ==
    [][(MaintenanceSplice /\ ~postMutex)
        => /\ dataPendingRT' = << >>
           /\ Len(data') = Len(data) + Len(dataPendingRT)
           /\ \A i \in 1..Len(data) : data'[i] = data[i]
           /\ \A i \in 1..Len(dataPendingRT) : data'[Len(data) + i] = dataPendingRT[i]
           /\ postMutex' = FALSE]_vars

\* a successful trySplice has just added events behind events already in `data`
C5_Witness ==
    /\ lastPostOp = "trySplice"
    /\ Len(data) >= 3
    /\ data[1] + 1 = data[2]
    /\ dataPendingRT = << >>
    /\ ~postMutex
    /\ delivered # << >>

\* C6: a trySplice that finds the mutex held changes neither list nor the
\* mutex, and does not wait: it is enabled while the mutex is held
C6_BusySpliceIsNoOp ==
    /\ [](postMutex => ENABLED MaintenanceSplice)
    /\ [][(MaintenanceSplice /\ postMutex)
            => UNCHANGED <<data, dataPendingRT, postMutex, delivered>>]_vars

\* a trySplice has just failed with events pending while another thread held
\* the mutex
C6_Witness ==
    /\ lastPostOp = "trySplice-busy"
    /\ postMutex
    /\ dataPendingRT # << >>

\* C7 as stated: once the producer has generated all its events and both lists
\* are drained, the consumer has received as many events as were generated
C7_AllGeneratedDelivered ==
    (generated = MaxEvents /\ data = << >> /\ dataPendingRT = << >>)
        => Len(delivered) = generated

\* C7 amended: once both lists are drained the consumer has received, in the
\* order of generation and each once, exactly the events that appendRT did
\* not drop and clear() did not remove
C7_AcceptedDeliveredInOrder ==
    (data = << >> /\ dataPendingRT = << >>)
        => /\ IsAscendingListOf(delivered, (1..generated) \ (droppedRT \cup discarded))
           /\ droppedRT \cap discarded = {}
           /\ Len(delivered) = generated - Cardinality(droppedRT) - Cardinality(discarded)

\* the producer is done, everything is drained, and an event was dropped on the way
C7_Witness ==
    /\ generated = MaxEvents
    /\ data = << >>
    /\ dataPendingRT = << >>
    /\ droppedRT # {}
    /\ Len(delivered) >= kPostRtPoolSize

(***************************************************************************)
(* Properties of the control injection queue, checked under SpecNotes.     *)
(***************************************************************************)
\* threads between a lock and the matching unlock of ExternalNotes::mutex
extInsiders ==
    Cardinality({t \in ControlThreads : extPc[t] # "idle"})
        + (IF rtPc = "locked" THEN 1 ELSE 0)
        + (IF extDtorPc \in {"locked", "cleared"} THEN 1 ELSE 0)

\* C8: at most one thread (an appending control thread, the real-time consumer
\* or the destructor) is between lock and unlock, the mutex is locked exactly
\* while one is, and so it is unlocked whenever every append has returned
C8_AppendHoldsMutex ==
    /\ extInsiders <= 1
    /\ extMutex <=> (extInsiders = 1)
    /\ \A t \in ControlThreads : extPc[t] # "idle" => extMutex

\* a control thread has appended and not yet unlocked, a second one has
\* appended before, and the real-time consumer found the mutex taken
C8_Witness ==
    /\ extPc[1] = "appended"
    /\ extCallers = ControlThreads
    /\ rtPc = "skipped"
    /\ Len(extData) >= 2

(***************************************************************************)
(* Properties of the destructor, checked under SpecDtor.                   *)
(***************************************************************************)
\* the destructor is past its tryLock block
pastTryLock == dtorPc \notin {"start", "tryLock"}

\* C3 as stated: each assertion passes exactly when the tryLock succeeded, and
\* a mutex found held by another thread is reported
C3_HeldLockIsReported ==
    pastTryLock =>
        /\ ("lockMaster" \notin asserts) <=> lockMaster
        /\ ("lockSingle" \notin asserts) <=> lockSingle
        /\ seenMaster = "other" => "lockMaster" \in asserts
        /\ seenSingle = "other" => "lockSingle" \in asserts

\* C3 amended: each tryLock succeeds exactly when the mutex was free, each
\* assertion passes exactly when the tryLock failed, so a mutex found held
\* (by the destroying thread or by another one) is not reported and a mutex
\* found free is
C3_FreeLockIsReported ==
    pastTryLock =>
        /\ lockMaster <=> (seenMaster = "nobody")
        /\ lockSingle <=> (seenSingle = "nobody")
        /\ ("lockMaster" \in asserts) <=> lockMaster
        /\ ("lockSingle" \in asserts) <=> lockSingle
        /\ seenMaster = "other" => "lockMaster" \notin asserts
        /\ seenSingle = "other" => "lockSingle" \notin asserts

\* the destructor found masterMutex held by another thread and singleMutex
\* free, and has gone on to the end
C3_Witness ==
    /\ dtorPc = "done"
    /\ seenMaster = "other"
    /\ seenSingle = "nobody"
    /\ "lockMaster" \notin asserts
    /\ "lockSingle" \in asserts

(***************************************************************************)
(* Properties of the resource tables, checked under SpecTables.            *)
(***************************************************************************)
\* C10: in every reachable state of every table, clear() gives count 0, null
\* array and port pointers and (program tables) current -1, clear() of that
\* result is the same result, and the table is in that state whenever its
\* last operation was a clear
C10_ClearLeavesIdle ==
    /\ LET c == PluginAudioData_clear(audioIn)
       IN c.count = 0 /\ c.ports.null /\ c.ports.arr = << >>
          /\ PluginAudioData_clear(c) = c
    /\ LET c == PluginCVData_clear(cv)
       IN c.count = 0 /\ c.ports.null /\ c.ports.arr = << >>
          /\ PluginCVData_clear(c) = c
    /\ LET c == PluginEventData_clear(event)
       IN c.portIn = "nullptr" /\ c.portOut = "nullptr"
          /\ PluginEventData_clear(c) = c
    /\ LET c == PluginParameterData_clear(param)
       IN c.count = 0 /\ c.data.null /\ c.ranges.null /\ c.special.null
          /\ PluginParameterData_clear(c) = c
    /\ LET c == PluginProgramData_clear(prog)
       IN c.count = 0 /\ c.names.null /\ c.current = -1
          /\ PluginProgramData_clear(c) = c
    /\ LET c == PluginMidiProgramData_clear(midiprog)
       IN c.count = 0 /\ c.data.null /\ c.current = -1
          /\ PluginMidiProgramData_clear(c) = c
    /\ lastTableOp \in {"clear", "clear-again", "clear-idle"} =>
          /\ audioIn = PluginAudioData
          /\ cv = PluginCVData
          /\ event = PluginEventData
          /\ param = PluginParameterData
          /\ prog = PluginProgramData
          /\ midiprog = PluginMidiProgramData

\* a table that held something was cleared and then cleared again
C10_Witness ==
    /\ lastTableOp = "clear-again"
    /\ tableUnderTest = "prog"

\* a pointer is null exactly when count is 0, and points to count elements otherwise
sizedBy(ptr, count) ==
    /\ ptr.null <=> (count = 0)
    /\ Len(ptr.arr) = count

\* C11: after any sequence of createNew, clear and element writes, no table is
\* partially allocated: count is 0 exactly when the array pointer is null and
\* is the length of the array otherwise; in PluginParameterData data and ranges
\* are null together, and special is either null or as long as data
C11_NeverPartiallyAllocated ==
    /\ sizedBy(audioIn.ports, audioIn.count)
    /\ sizedBy(cv.ports, cv.count)
    /\ sizedBy(param.data, param.count)
    /\ sizedBy(param.ranges, param.count)
    /\ param.data.null <=> param.ranges.null
    /\ ~param.special.null => (~param.data.null /\ Len(param.special.arr) = param.count)
    /\ sizedBy(prog.names, prog.count)
    /\ sizedBy(midiprog.data, midiprog.count)

\* a parameter table allocated without `special`, after an earlier one was cleared
C11_Witness ==
    /\ tableUnderTest = "param"
    /\ lastTableOp = "createNew"
    /\ Len(tableTrail) >= 2
    /\ tableTrail[Len(tableTrail) - 1].op = "clear"
    /\ param.count = 2
    /\ ~param.data.null
    /\ ~param.ranges.null
    /\ param.special.null

\* C12: on a table that is allocated createNew changes nothing, whatever
\* newCount is: count, the pointers, the entries and current are the ones
\* before the call; createNew(0) leaves an idle table idle
C12_CreateOnAllocatedIsNoOp ==
    /\ \A n \in 0..MaxCount :
         /\ ~audioIn.ports.null => PluginAudioData_createNew(audioIn, n) = audioIn
         /\ ~cv.ports.null => PluginCVData_createNew(cv, n) = cv
         /\ ~param.data.null =>
               \A ws \in BOOLEAN : PluginParameterData_createNew(param, n, ws) = param
         /\ ~prog.names.null => PluginProgramData_createNew(prog, n) = prog
         /\ ~midiprog.data.null => PluginMidiProgramData_createNew(midiprog, n) = midiprog
    /\ PluginAudioData_createNew(PluginAudioData, 0) = PluginAudioData
    /\ PluginCVData_createNew(PluginCVData, 0) = PluginCVData
    /\ \A ws \in BOOLEAN :
         PluginParameterData_createNew(PluginParameterData, 0, ws) = PluginParameterData
    /\ PluginProgramData_createNew(PluginProgramData, 0) = PluginProgramData
    /\ PluginMidiProgramData_createNew(PluginMidiProgramData, 0) = PluginMidiProgramData

\* createNew was called on a program table that holds two programs, a name
\* and a selection, and was ignored
C12_Witness ==
    /\ tableUnderTest = "prog"
    /\ lastTableOp = "createNew-ignored"
    /\ prog.count = 2
    /\ prog.current = 1
    /\ prog.names.arr[1] = "name"

\* the last three createNew and clear calls were createNew(n); clear();
\* createNew(m) with m different from n, and the createNew(m) has just returned
recreated(n, m) ==
    LET k == Len(tableTrail)
    IN /\ k >= 3
       /\ tableTrail[k - 2] = [op |-> "createNew", n |-> n]
       /\ tableTrail[k - 1] = [op |-> "clear", n |-> 0]
       /\ tableTrail[k] = [op |-> "createNew", n |-> m]
       /\ m # n
       /\ lastTableOp \in {"createNew", "createNew-ignored"}

\* C13: after createNew(n); clear(); createNew(m) with m different from n the
\* table is the one createNew(m) makes of a new table: count m, arrays of m
\* entries, every entry as constructed, and nothing left of the first
\* allocation
C13_RecreateGivesFreshTable ==
    \A n, m \in 0..MaxCount :
       recreated(n, m) =>
          /\ tableUnderTest = "audio" =>
                /\ audioIn = PluginAudioData_createNew(PluginAudioData, m)
                /\ audioIn.count = m /\ Len(audioIn.ports.arr) = m
          /\ tableUnderTest = "cv" =>
                /\ cv = PluginCVData_createNew(PluginCVData, m)
                /\ cv.count = m /\ Len(cv.ports.arr) = m
          /\ tableUnderTest = "param" =>
                /\ \E ws \in BOOLEAN :
                      param = PluginParameterData_createNew(PluginParameterData, m, ws)
                /\ param.count = m
                /\ Len(param.data.arr) = m /\ Len(param.ranges.arr) = m
          /\ tableUnderTest = "prog" =>
                /\ prog = PluginProgramData_createNew(PluginProgramData, m)
                /\ prog.count = m /\ Len(prog.names.arr) = m
          /\ tableUnderTest = "midiprog" =>
                /\ midiprog = PluginMidiProgramData_createNew(PluginMidiProgramData, m)
                /\ midiprog.count = m /\ Len(midiprog.data.arr) = m

\* a program table made with three entries, cleared and made again with one
C13_Witness ==
    /\ tableUnderTest = "prog"
    /\ recreated(3, 1)
    /\ prog.count = 1

\* C14 as stated: in every reachable state of the two program tables current
\* is in [0, count) when count > 0 and is -1 when count = 0
C14_CurrentAlwaysSelected ==
    /\ prog.count > 0 => (0 <= prog.current /\ prog.current < prog.count)
    /\ prog.count = 0 => prog.current = -1
    /\ midiprog.count > 0 => (0 <= midiprog.current /\ midiprog.current < midiprog.count)
    /\ midiprog.count = 0 => midiprog.current = -1

\* C14, amended: current is -1 whenever count = 0; with count > 0 it is -1
\* (nothing selected) or an index below count; a createNew that has allocated
\* the table leaves it at -1
C14_CurrentSelectedOrNone ==
    /\ prog.count = 0 => prog.current = -1
    /\ prog.count > 0 => (-1 <= prog.current /\ prog.current < prog.count)
    /\ midiprog.count = 0 => midiprog.current = -1
    /\ midiprog.count > 0 => (-1 <= midiprog.current /\ midiprog.current < midiprog.count)
    /\ lastTableOp = "createNew" => (prog.current = -1 /\ midiprog.current = -1)

\* a MIDI program table was cleared and allocated again: it has two entries
\* and no selection
C14_Witness ==
    /\ tableUnderTest = "midiprog"
    /\ lastTableOp = "createNew"
    /\ Len(tableTrail) >= 2
    /\ tableTrail[Len(tableTrail) - 1].op = "clear"
    /\ midiprog.count = 2
    /\ midiprog.current = -1

\* C15 as stated: getCurrent() never reads outside the data array; with
\* current out of range, or the table idle, the call is guarded
C15_GetCurrentStaysInArray ==
    lastRead.result \in {"none", "element"}

(***************************************************************************)
(* Properties of the destruction of the context, checked under SpecDtor.   *)
(***************************************************************************)
\* C16 as stated: once the destructor has run, audioIn, audioOut, event,
\* param, prog, midiprog and custom are idle, whatever the state of the
\* context was when it started, a context without client included
C16_AllTablesIdleAfterDtor ==
    dtorPc = "done" =>
       /\ audioIn = PluginAudioData
       /\ audioOut = PluginAudioData
       /\ event = PluginEventData
       /\ param = PluginParameterData
       /\ prog = PluginProgramData
       /\ midiprog = PluginMidiProgramData
       /\ custom = << >>

\* the body of the destructor has returned
bodyDone == dtorPc \in {"members", "done"}

\* C17 as stated: whichever of lib and uiLib is open when the destructor
\* runs is closed by it, so that no handle is open afterwards
C17_BothHandlesClosed ==
    bodyDone => (lib = "nullptr" /\ uiLib = "nullptr")

\* C17, amended: the destructor closes lib when it is open; it never closes
\* uiLib: a uiLib that is open at destruction is reported by the assertion
\* uiLib == nullptr and is still open afterwards
C17_LibClosedUiLibChecked ==
    /\ uiLib = atEntry.uiLib
    /\ bodyDone =>
          /\ lib = "nullptr"
          /\ ("uiLib == nullptr" \in asserts) <=> (atEntry.uiLib = "open")

\* a context destroyed with both handles open: lib has been closed, uiLib has
\* been reported and is open
C17_Witness ==
    /\ dtorPc = "done"
    /\ atEntry.lib = "open"
    /\ atEntry.uiLib = "open"
    /\ lib = "nullptr"
    /\ uiLib = "open"
    /\ "uiLib == nullptr" \in asserts

\* the tables and buffers the context owns
ownedTables == <<audioIn, audioOut, event, param, prog, midiprog, custom>>

\* the tables that clearBuffers() releases are idle
buffersIdle ==
    /\ audioIn = PluginAudioData
    /\ audioOut = PluginAudioData
    /\ event = PluginEventData
    /\ param = PluginParameterData

\* C18: in every step of a destruction: a client that stops being active has
\* been reported and becomes inactive before anything else happens to it; no
\* table changes while the client is active; clearBuffers runs with the
\* client inactive; the client is deleted with the buffers released; the
\* destructor unlocks the mutexes with the client deleted and prog, midiprog
\* and custom cleared
C18_TeardownOrder ==
    [][ /\ (client = "active" /\ client' # "active") =>
              (client' = "inactive" /\ "client->isActive()" \in asserts')
        /\ client = "active" => ownedTables' = ownedTables
        /\ (dtorPc = "clearBuffers" /\ dtorPc' # dtorPc) =>
              (client = "inactive" /\ client' = "inactive" /\ buffersIdle')
        /\ (client # "nullptr" /\ client' = "nullptr") => (client = "inactive" /\ buffersIdle)
        /\ (dtorPc \in {"unlock", "unlockSingle"} /\ dtorPc' # dtorPc) =>
              /\ client = "nullptr"
              /\ prog = PluginProgramData
              /\ midiprog = PluginMidiProgramData
              /\ custom = << >>
      ]_vars

\* a context destroyed with an active client and allocated tables: the
\* client was reported, the tables are idle, the client is deleted
C18_Witness ==
    /\ dtorPc = "done"
    /\ atEntry.client = "active"
    /\ atEntry.audioInCount > 0
    /\ "client->isActive()" \in asserts
    /\ client = "nullptr"
    /\ buffersIdle
    /\ masterMutex = "nobody"

(***************************************************************************)
(* The pool shared by the two report lists, checked under SpecReport.      *)
(***************************************************************************)
\* C20: data and dataPendingRT take their nodes from one pool of
\* kPostRtPoolSize: together they never hold more than that, so dataPendingRT
\* has only the room that data leaves, and an appendRT is dropped exactly
\* when the two lists together fill the pool, however short dataPendingRT is
C20_ListsShareOnePool ==
    /\ Len(data) + Len(dataPendingRT) <= kPostRtPoolSize
    /\ Len(dataPendingRT) <= kPostRtPoolSize - Len(data)
    /\ lastPostOp = "appendRT-dropped" =>
          /\ Len(data) + Len(dataPendingRT) = kPostRtPoolSize
          /\ droppedRT # {}
    /\ (droppedRT = {} /\ lastPostOp = "appendRT") => dataPendingRT # << >>

\* every node is in data, spliced and not drained; dataPendingRT is empty and
\* the appendRT was dropped all the same
C20_Witness ==
    /\ lastPostOp = "appendRT-dropped"
    /\ dataPendingRT = << >>
    /\ Len(data) = kPostRtPoolSize
    /\ generated \in droppedRT

(***************************************************************************)
(* The unlock calls of the destructor, checked under SpecDtor.             *)
(***************************************************************************)
\* C21 as stated: the destructor calls unlock() on masterMutex and on
\* singleMutex only while that mutex is locked, and once the body of the
\* destructor has returned both mutexes are unlocked, whatever their state
\* was on entry and whatever other threads did to them in the meantime
C21_UnlockOnLockedAndFreeAfter ==
    /\ atUnlock.master # "nobody"
    /\ atUnlock.single # "nobody"
    /\ bodyDone => (masterMutex = "nobody" /\ singleMutex = "nobody")

====
